---- MODULE Spec2Model ----
(***************************************************************************)
(* Model of resolve_calendar_conflicts (src/main.py:227-294), the calendar *)
(* conflict resolution of the study planner.                               *)
(*                                                                         *)
(* Dates are day ordinals (integers); timedelta(days=k) is integer         *)
(* addition.  Python dicts are objects on a heap: a list holds references  *)
(* (indices into heap), `item.copy()` allocates a new object, and          *)
(* appending `items[0]` to the output appends the input object itself.     *)
(* Task texts are strings, so the marker prefixes are real concatenations. *)
(***************************************************************************)
EXTENDS Integers, Sequences, FiniteSets, TLC

VARIABLES
    heap,                \* heap[r]: the dict that reference r points to
    given,               \* the items' field values as they were at the call
    all_calendar_items,  \* the argument: a list of references
    sorted_items,        \* line 233
    date_groups,         \* line 236: insertion-ordered dict, as a list of entries
    resolved_items,      \* line 243: a list of references
    conflicts_resolved,  \* line 244
    pc,                  \* "call", "groups", "others", "done"
    g,                   \* index of the day-bucket the outer loop (246) is at
    items_by_urgency,    \* line 260, for the bucket at hand
    i                    \* index in items_by_urgency of the inner loop (266)

vars == <<heap, given, all_calendar_items, sorted_items, date_groups,
          resolved_items, conflicts_resolved, pc, g, items_by_urgency, i>>

-----------------------------------------------------------------------------
(* Bounds of the inputs explored *)

MaxItems == 6

(* The plan entries the input lists are drawn from: six courses, each with  *)
(* its exam date and a study date before it (parse_study_plan_to_           *)
(* calendar_items puts a course's items on the days before its exam).       *)
PlanEntries ==
    { [course |-> "algebra",   date |-> 1, exam_date |-> 2],
      [course |-> "biology",   date |-> 2, exam_date |-> 3],
      [course |-> "chemistry", date |-> 3, exam_date |-> 4],
      [course |-> "drawing",   date |-> 4, exam_date |-> 8],
      [course |-> "english",   date |-> 5, exam_date |-> 6],
      [course |-> "french",    date |-> 5, exam_date |-> 7] }

-----------------------------------------------------------------------------
(* Helpers *)

\* date.strftime('%Y-%m-%d'): the text of a date (here of its day ordinal)
strftime(d) == ToString(d)

\* the dict built at lines 216-223 for the n-th entry of the plan
CalendarItem(e, n) ==
    [ date            |-> e.date,
      course          |-> e.course,
      task            |-> "task" \o ToString(n),
      days_until_exam |-> e.exam_date - e.date,
      exam_date       |-> e.exam_date ]

\* (Rank with the elements of equal key in reverse order: not a stable sort)
RankUnstable(s, k, key) ==
    1 + Cardinality({ j \in 1..Len(s) :
            \/ heap[s[j]][key] < heap[s[k]][key]
            \/ heap[s[j]][key] = heap[s[k]][key] /\ j > k })

\* the place element k of the list s takes when s is sorted by the items'
\* field `key`: Python's sort is stable, elements of equal key keep their order
Rank(s, k, key) ==
    1 + Cardinality({ j \in 1..Len(s) :
            \/ heap[s[j]][key] < heap[s[k]][key]
            \/ heap[s[j]][key] = heap[s[k]][key] /\ j < k })

\* (faulty variant of sorted: the list is left in the order it came in)
Unsorted(s, key) == s

\* sorted(s, key=lambda x: x[key])
sorted(s, key) ==
    [p \in 1..Len(s) |-> s[CHOOSE k \in 1..Len(s) : Rank(s, k, key) = p]]

\* (faulty variant of ByUrgency: items of equal urgency come out in reverse order)
ByUrgencyUnstable(items) ==
    [p \in 1..Len(items) |->
        items[CHOOSE k \in 1..Len(items) :
                  RankUnstable(items, k, "days_until_exam") = p]]

\* line 260: the items of a day, the most urgent first
ByUrgency(items) == sorted(items, "days_until_exam")

\* lines 237-241: one step of the grouping loop
AddToGroup(groups, r) ==
    LET date_str == strftime(heap[r].date)
        at == { k \in 1..Len(groups) : groups[k].date_str = date_str }
    IN  IF at = {}
        THEN Append(groups, [date_str |-> date_str, items |-> <<r>>])
        ELSE LET k == CHOOSE k \in at : TRUE
             IN  [groups EXCEPT ![k].items = Append(@, r)]

RECURSIVE GroupByDate(_)
GroupByDate(s) ==
    IF s = <<>> THEN <<>>
    ELSE AddToGroup(GroupByDate(SubSeq(s, 1, Len(s) - 1)), s[Len(s)])

\* (faulty variant of Offsets: the search gives up a day early)
OffsetsShort == <<1, -1, 2, -2>>

\* line 268: the offsets tried, in this order
Offsets == <<1, -1, 2, -2, 3, -3>>

\* line 282: a day that already holds this many output items takes no more
MaxPerDay == 2

\* lines 285 and 291: the prefixes written in front of a task
RescheduledPrefix == "[Rescheduled] "
ConflictPrefix == "[CONFLICT] "

\* (faulty variant of ConflictRecord: the count leaves out the item that keeps
\* the day)
ConflictRecordOverflow(date_str, items) ==
    [ date           |-> date_str,
      courses        |-> [k \in 1..Len(items) |-> heap[items[k]].course],
      original_count |-> Len(items) - 1 ]

\* lines 252-256: the report of a day that holds several items
ConflictRecord(date_str, items) ==
    [ date           |-> date_str,
      courses        |-> [k \in 1..Len(items) |-> heap[items[k]].course],
      original_count |-> Len(items) ]

\* (faulty variant of IsExamDay: only the items already in the output are
\* looked at)
IsExamDayOfResolved(new_date) ==
    \E k \in 1..Len(resolved_items) :
        heap[resolved_items[k]].exam_date = new_date

\* lines 276-279: new_date is the exam day of some item of the input list
IsExamDay(new_date) ==
    \E k \in 1..Len(all_calendar_items) :
        heap[all_calendar_items[k]].exam_date = new_date

\* line 282: the items of `resolved` dated new_date
CountOn(resolved, new_date) ==
    Cardinality({ k \in 1..Len(resolved) : heap[resolved[k]].date = new_date })

\* (faulty variant of Acceptable: a day that holds MaxPerDay items takes one more)
AcceptableOffByOne(new_date) ==
    /\ ~IsExamDay(new_date)
    /\ CountOn(resolved_items, new_date) <= MaxPerDay

\* (faulty variant of Acceptable: the items on the date are not counted)
AcceptableUncounted(new_date) == ~IsExamDay(new_date)

\* lines 273-282: the test a candidate date has to pass
Acceptable(new_date) ==
    /\ ~IsExamDay(new_date)
    /\ CountOn(resolved_items, new_date) < MaxPerDay

\* the positions in Offsets whose candidate date passes, for the item r
AcceptableOffsets(r) ==
    { k \in 1..Len(Offsets) : Acceptable(heap[r].date + Offsets[k]) }

\* the first position of `ks`: where the loop of line 268 breaks
FirstOf(ks) == CHOOSE k \in ks : \A l \in ks : k <= l

-----------------------------------------------------------------------------
(* The state at the call *)

\* lines 581-612: main extends the list course by course, so the items of a
\* course are next to each other; the courses come in any order, and a plan
\* text may hold an entry several times (a repeated "Day N:" block)
CourseByCourse(plan) ==
    \A a, b, c \in DOMAIN plan :
        (a < b /\ b < c /\ plan[a] = plan[c]) => plan[b] = plan[a]

Init ==
    /\ \E n \in 0..MaxItems :
        \E plan \in [1..n -> PlanEntries] :
            /\ CourseByCourse(plan)
            /\ heap = [r \in 1..n |-> CalendarItem(plan[r], r)]
            /\ given = [r \in 1..n |-> CalendarItem(plan[r], r)]
            /\ all_calendar_items = [r \in 1..n |-> r]
    /\ sorted_items = <<>>
    /\ date_groups = <<>>
    /\ resolved_items = <<>>
    /\ conflicts_resolved = <<>>
    /\ pc = "call"
    /\ g = 0
    /\ items_by_urgency = <<>>
    /\ i = 0

-----------------------------------------------------------------------------
(* Steps *)

\* lines 229-230: an empty list is returned as it is, with no conflicts
ReturnEmpty ==
    /\ pc = "call"
    /\ all_calendar_items = <<>>
    /\ resolved_items' = all_calendar_items
    /\ conflicts_resolved' = <<>>
    /\ pc' = "done"
    /\ UNCHANGED <<heap, given, all_calendar_items, sorted_items, date_groups,
                   g, items_by_urgency, i>>

\* lines 233-244: sort by date, group by date text, start the loop
SortAndGroup ==
    /\ pc = "call"
    /\ all_calendar_items # <<>>
    /\ sorted_items' = sorted(all_calendar_items, "date")
    /\ date_groups' = GroupByDate(sorted(all_calendar_items, "date"))
    /\ resolved_items' = <<>>
    /\ conflicts_resolved' = <<>>
    /\ g' = 1
    /\ pc' = "groups"
    /\ UNCHANGED <<heap, given, all_calendar_items, items_by_urgency, i>>

\* (faulty variant of AppendSingle: a single item whose day already holds
\* MaxPerDay moved items is marked as a conflict)
AppendSingleIfRoom ==
    /\ pc = "groups"
    /\ g <= Len(date_groups)
    /\ Len(date_groups[g].items) = 1
    /\ LET item == date_groups[g].items[1]
       IN  IF CountOn(resolved_items, heap[item].date) < MaxPerDay
           THEN /\ resolved_items' = Append(resolved_items, item)
                /\ UNCHANGED heap
           ELSE /\ heap' = Append(heap,
                       [heap[item] EXCEPT !.task = ConflictPrefix \o heap[item].task])
                /\ resolved_items' = Append(resolved_items, Len(heap) + 1)
    /\ g' = g + 1
    /\ UNCHANGED <<given, all_calendar_items, sorted_items, date_groups,
                   conflicts_resolved, pc, items_by_urgency, i>>

\* lines 247-249: a day with one item keeps it
AppendSingle ==
    /\ pc = "groups"
    /\ g <= Len(date_groups)
    /\ Len(date_groups[g].items) = 1
    /\ resolved_items' = Append(resolved_items, date_groups[g].items[1])
    /\ g' = g + 1
    /\ UNCHANGED <<heap, given, all_calendar_items, sorted_items, date_groups,
                   conflicts_resolved, pc, items_by_urgency, i>>

\* lines 250-263: a day with several items is reported, and its most urgent
\* item keeps the day
KeepMostUrgent ==
    /\ pc = "groups"
    /\ g <= Len(date_groups)
    /\ Len(date_groups[g].items) # 1
    /\ LET items == date_groups[g].items
       IN  /\ conflicts_resolved' = Append(conflicts_resolved,
                  ConflictRecord(date_groups[g].date_str, items))
           /\ items_by_urgency' = ByUrgency(items)
           /\ resolved_items' = Append(resolved_items, ByUrgency(items)[1])
    /\ i' = 2
    /\ pc' = "others"
    /\ UNCHANGED <<heap, given, all_calendar_items, sorted_items, date_groups, g>>

\* (faulty variant of NextItem: the inner loop stops one item early)
NextItemShort ==
    IF i + 1 < Len(items_by_urgency)
    THEN /\ i' = i + 1
         /\ UNCHANGED <<pc, g>>
    ELSE /\ i' = 0
         /\ pc' = "groups"
         /\ g' = g + 1

\* the inner loop (266) moves on; after the bucket's last item, so does the
\* outer loop (246)
NextItem ==
    IF i < Len(items_by_urgency)
    THEN /\ i' = i + 1
         /\ UNCHANGED <<pc, g>>
    ELSE /\ i' = 0
         /\ pc' = "groups"
         /\ g' = g + 1

\* (faulty variant of Reschedule: the item itself is rewritten, not a copy of it)
RescheduleInPlace ==
    /\ pc = "others"
    /\ LET item == items_by_urgency[i]
       IN  /\ AcceptableOffsets(item) # {}
           /\ LET new_date == heap[item].date + Offsets[FirstOf(AcceptableOffsets(item))]
              IN  /\ heap' = [heap EXCEPT
                             ![item].date = new_date,
                             ![item].task = RescheduledPrefix \o heap[item].task]
                  /\ resolved_items' = Append(resolved_items, item)
    /\ NextItem
    /\ UNCHANGED <<given, all_calendar_items, sorted_items, date_groups,
                   conflicts_resolved, items_by_urgency>>

\* (faulty variant of Reschedule: the moved copy's task gets no marker)
RescheduleUnmarked ==
    /\ pc = "others"
    /\ LET item == items_by_urgency[i]
       IN  /\ AcceptableOffsets(item) # {}
           /\ LET new_date == heap[item].date + Offsets[FirstOf(AcceptableOffsets(item))]
                  modified_item == Len(heap) + 1
              IN  /\ heap' = Append(heap, [heap[item] EXCEPT !.date = new_date])
                  /\ resolved_items' = Append(resolved_items, modified_item)
    /\ NextItem
    /\ UNCHANGED <<given, all_calendar_items, sorted_items, date_groups,
                   conflicts_resolved, items_by_urgency>>

\* lines 268-287: the item moves to the first candidate date that passes
Reschedule ==
    /\ pc = "others"
    /\ LET item == items_by_urgency[i]
       IN  /\ AcceptableOffsets(item) # {}
           /\ LET new_date == heap[item].date + Offsets[FirstOf(AcceptableOffsets(item))]
                  modified_item == Len(heap) + 1
              IN  /\ heap' = Append(heap,
                         [heap[item] EXCEPT
                             !.date = new_date,
                             !.task = RescheduledPrefix \o heap[item].task])
                  /\ resolved_items' = Append(resolved_items, modified_item)
    /\ NextItem
    /\ UNCHANGED <<given, all_calendar_items, sorted_items, date_groups,
                   conflicts_resolved, items_by_urgency>>

\* lines 288-292: no candidate passed: the item stays, marked
MarkConflict ==
    /\ pc = "others"
    /\ LET item == items_by_urgency[i]
       IN  /\ AcceptableOffsets(item) = {}
           /\ LET conflicted_item == Len(heap) + 1
              IN  /\ heap' = Append(heap,
                         [heap[item] EXCEPT !.task = ConflictPrefix \o heap[item].task])
                  /\ resolved_items' = Append(resolved_items, conflicted_item)
    /\ NextItem
    /\ UNCHANGED <<given, all_calendar_items, sorted_items, date_groups,
                   conflicts_resolved, items_by_urgency>>

\* line 294
Return ==
    /\ pc = "groups"
    /\ g > Len(date_groups)
    /\ pc' = "done"
    /\ UNCHANGED <<heap, given, all_calendar_items, sorted_items, date_groups,
                   resolved_items, conflicts_resolved, g, items_by_urgency, i>>

Next ==
    \/ ReturnEmpty
    \/ SortAndGroup
    \/ AppendSingle
    \/ KeepMostUrgent
    \/ Reschedule
    \/ MarkConflict
    \/ Return

Spec == Init /\ [][Next]_vars

-----------------------------------------------------------------------------
(* What the properties below speak of *)

Done == pc = "done"

\* the k-th item of the output list
Out(k) == heap[resolved_items[k]]
Outputs == 1..Len(resolved_items)
Inputs == 1..Len(given)

StartsWith(s, p) == Len(s) >= Len(p) /\ SubSeq(s, 1, Len(p)) = p
EndsWith(s, p) == Len(s) >= Len(p) /\ SubSeq(s, Len(s) - Len(p) + 1, Len(s)) = p
Contains(s, p) == \E a \in 1..(Len(s) - Len(p) + 1) : SubSeq(s, a, a + Len(p) - 1) = p

\* output item k comes from input item j: same course, and j's task text with
\* nothing or a prefix in front of it
IsFrom(k, j) ==
    /\ Out(k).course = given[j].course
    /\ EndsWith(Out(k).task, given[j].task)

\* the input item output item k comes from
Src(k) == CHOOSE j \in Inputs : IsFrom(k, j)

IsRescheduled(k) == StartsWith(Out(k).task, "[Rescheduled] ")
IsMarkedConflict(k) == StartsWith(Out(k).task, "[CONFLICT] ")

\* input item j is the most urgent of its date, the earlier in the list on a tie
Wins(j) ==
    \A l \in Inputs :
        given[l].date = given[j].date =>
            \/ given[j].days_until_exam < given[l].days_until_exam
            \/ given[j].days_until_exam = given[l].days_until_exam /\ j <= l

\* the exam days of the input
ExamDays == { given[j].exam_date : j \in Inputs }

\* how many items stood in the output on date d when output item k was added
EarlierOn(k, d) == Cardinality({ l \in 1..(k - 1) : Out(l).date = d })

\* date d was open to a moved item when output item k was added
FreeAt(k, d) == d \notin ExamDays /\ EarlierOn(k, d) < 2

-----------------------------------------------------------------------------
(* C1 *)

\* C1: the output has as many items as the input, and every input item
\* yields exactly one output item: same course, its task text with at most a
\* marker in front; none is dropped, none is duplicated.
Conservation ==
    Done =>
        /\ Len(resolved_items) = Len(all_calendar_items)
        /\ \A j \in Inputs : Cardinality({ k \in Outputs : IsFrom(k, j) }) = 1
        /\ \A k \in Outputs : \E j \in Inputs : IsFrom(k, j)

\* a day with three items: one kept, two redistributed
ConservationWitness ==
    /\ Done
    /\ \E j \in Inputs :
        Cardinality({ l \in Inputs : given[l].date = given[j].date }) >= 3
    /\ \E k \in Outputs : IsRescheduled(k)

-----------------------------------------------------------------------------
(* C2 *)

\* C2 (as claimed): every output item, the moved ones too, is dated strictly
\* before its own exam date.
ExamDayExclusion ==
    \A k \in Outputs : Out(k).date < Out(k).exam_date

-----------------------------------------------------------------------------
(* C9 *)

\* C9: the input list holds the same items in the same order, and no input
\* item's fields have changed; moving and marking happen on copies.
InputUnchanged ==
    /\ Len(all_calendar_items) = Len(given)
    /\ \A j \in Inputs : heap[all_calendar_items[j]] = given[j]

\* the output holds a copy that was moved and an input item as it came
InputUnchangedWitness ==
    /\ Done
    /\ \E k \in Outputs :
        /\ resolved_items[k] > Len(given)
        /\ Out(k).date # given[Src(k)].date
    /\ \E k \in Outputs : resolved_items[k] <= Len(given)

-----------------------------------------------------------------------------
(* C3 *)

\* C3 (as claimed): in the final output, every item without the conflict
\* marker is on a date whose output items do not exceed the daily cap (the
\* code's cap is in items: MaxPerDay).
CapacityRespected ==
    Done =>
        \A k \in Outputs :
            ~IsMarkedConflict(k) =>
                CountOn(resolved_items, Out(k).date) <= MaxPerDay

\* C3 (amended): the cap is checked when an item is moved, and only then:
\* every item marked [Rescheduled] was put on a date that held fewer than 2
\* output items at that moment, i.e. fewer than 2 of the items before it in
\* the output list have its date.
CapacityAtPlacement ==
    \A k \in Outputs :
        IsRescheduled(k) => EarlierOn(k, Out(k).date) < 2

\* an item was moved onto a date that held one item, and a later day-bucket
\* then put a third item on that date
CapacityAtPlacementWitness ==
    /\ Done
    /\ \E k \in Outputs :
        /\ IsRescheduled(k)
        /\ EarlierOn(k, Out(k).date) = 1
        /\ CountOn(resolved_items, Out(k).date) = 3

-----------------------------------------------------------------------------
(* C4 *)

\* C4: of the items that share a date, the one with the smallest
\* days_until_exam, on a tie the first of them in the input list, is in the
\* output as it came (date and task unchanged); the others are the ones that
\* come out with a marker.
UrgencyPriority ==
    Done =>
        \A j \in Inputs :
            /\ Wins(j) <=> \E k \in Outputs : Out(k) = given[j]
            /\ ~Wins(j) =>
                \E k \in Outputs :
                    /\ IsFrom(k, j)
                    /\ IsRescheduled(k) \/ IsMarkedConflict(k)

\* a date where a later item of the list is more urgent than an earlier one,
\* and two items tie
UrgencyPriorityWitness ==
    /\ Done
    /\ \E j, l \in Inputs :
        /\ j < l
        /\ given[j].date = given[l].date
        /\ given[l].days_until_exam < given[j].days_until_exam
    /\ \E j, l \in Inputs :
        /\ j < l
        /\ given[j].date = given[l].date
        /\ given[j].days_until_exam = given[l].days_until_exam
        /\ Wins(j)

-----------------------------------------------------------------------------
(* C5 *)

ClaimedOrder == <<-1, 1, -2, 2, -3, 3, -4, 4, -5, 5, -6, 6, -7, 7>>

\* C5 (as claimed): a moved item is on the first open candidate date when the
\* candidates are taken in the order -1, +1, -2, +2, ..., -7, +7 from its
\* original date: no candidate before its own in this order was open.
SearchOrderClaimed ==
    \A k \in Outputs :
        IsRescheduled(k) =>
            LET d0 == given[Src(k)].date
            IN  \E p \in 1..Len(ClaimedOrder) :
                    /\ Out(k).date = d0 + ClaimedOrder[p]
                    /\ \A q \in 1..(p - 1) : ~FreeAt(k, d0 + ClaimedOrder[q])

-----------------------------------------------------------------------------
(* C6 *)

NoneFree(k, d0, offsets) == \A o \in offsets : ~FreeAt(k, d0 + o)

\* C6 (as claimed): the item that neither keeps its day nor is moved gets the
\* prefix "[CONFLICT - Overloaded] ", and that happens exactly when it could
\* not keep its day and no date within 7 days of it, either way, was open.
ConflictFallbackClaimed ==
    \A k \in Outputs :
        LET j == Src(k)
            fell == Out(k).task \notin
                        { given[j].task, "[Rescheduled] " \o given[j].task }
        IN  /\ fell => Out(k).task = "[CONFLICT - Overloaded] " \o given[j].task
            /\ fell <=> /\ ~Wins(j)
                        /\ NoneFree(k, given[j].date, (-7..7) \ {0})

\* C6 (amended): an item gets the prefix "[CONFLICT] " exactly when it could
\* not keep its day and none of the dates +1, -1, +2, -2, +3, -3 days from it
\* was open (open: no input item's exam day, and fewer than 2 output items on
\* it so far); it is then in the output on its original date, every field but
\* the task unchanged.
ConflictFallback ==
    \A k \in Outputs :
        LET j == Src(k)
            marked == Out(k).task = "[CONFLICT] " \o given[j].task
        IN  /\ marked <=> /\ ~Wins(j)
                          /\ NoneFree(k, given[j].date, {1, -1, 2, -2, 3, -3})
            /\ marked => Out(k) = [given[j] EXCEPT !.task = "[CONFLICT] " \o @]

\* an item came out marked as a conflict
ConflictFallbackWitness ==
    /\ Done
    /\ \E k \in Outputs :
        /\ IsMarkedConflict(k)
        /\ Out(k).date = given[Src(k)].date

-----------------------------------------------------------------------------
(* C7 *)

\* the input items of date d, in list order
ItemsOn(d) == SelectSeq(given, LAMBDA x : x.date = d)

\* the dates that hold more than one input item
CrowdedDates == { d \in { given[j].date : j \in Inputs } : Len(ItemsOn(d)) > 1 }

RECURSIVE SumOverflow(_)
SumOverflow(records) ==
    IF records = <<>> THEN 0
    ELSE (Head(records).original_count - 1) + SumOverflow(Tail(records))

Marked == { k \in Outputs : IsRescheduled(k) \/ IsMarkedConflict(k) }

\* C7 (as claimed): one record per item that could not keep its date, each
\* with that one item's course only and an original count of 1; so there are
\* as many records as marked output items.
ConflictRecordPerItem ==
    Done =>
        /\ Len(conflicts_resolved) = Cardinality(Marked)
        /\ \A r \in 1..Len(conflicts_resolved) :
            /\ conflicts_resolved[r].original_count = 1
            /\ Len(conflicts_resolved[r].courses) = 1

\* C7 (amended): one record per date that holds more than one input item,
\* with that date, the courses of all input items of the date (in list order,
\* the one that keeps the date included) and their number as original count;
\* so the original counts less one add up to the number of marked output
\* items.
ConflictRecordPerDate ==
    Done =>
        /\ Len(conflicts_resolved) = Cardinality(CrowdedDates)
        /\ \A d \in CrowdedDates :
            \E r \in 1..Len(conflicts_resolved) :
                /\ conflicts_resolved[r].date = ToString(d)
                /\ conflicts_resolved[r].courses =
                       [m \in 1..Len(ItemsOn(d)) |-> ItemsOn(d)[m].course]
                /\ conflicts_resolved[r].original_count = Len(ItemsOn(d))
        /\ SumOverflow(conflicts_resolved) = Cardinality(Marked)

\* two crowded dates, one of them with items of two courses
ConflictRecordPerDateWitness ==
    /\ Done
    /\ Len(conflicts_resolved) = 2
    /\ \E r \in 1..Len(conflicts_resolved) :
        /\ conflicts_resolved[r].original_count = 3
        /\ \E a, b \in 1..3 :
            conflicts_resolved[r].courses[a] # conflicts_resolved[r].courses[b]

-----------------------------------------------------------------------------
(* C8 *)

\* the day ordinal a date text stands for
DateOfText(t) == CHOOSE d \in { given[j].date : j \in Inputs } : ToString(d) = t

\* C8 (as claimed): the output list is in ascending order of the items'
\* resulting dates, and the conflict records are in ascending order of date.
OutputSortedByDate ==
    Done =>
        /\ \A k, l \in Outputs : k < l => Out(k).date <= Out(l).date
        /\ \A r, q \in 1..Len(conflicts_resolved) :
            r < q => DateOfText(conflicts_resolved[r].date)
                         < DateOfText(conflicts_resolved[q].date)

\* C8 (amended): the output list is in processing order: ascending by the
\* date the items had in the input; within a date the item that keeps it
\* first, then the others by urgency and list order, each where its bucket
\* is, even when moved to an earlier or later date.  The conflict records
\* are in ascending order of date.
OutputInProcessingOrder ==
    Done =>
        /\ \A k, l \in Outputs :
            k < l =>
                LET a == given[Src(k)]
                    b == given[Src(l)]
                IN  \/ a.date < b.date
                    \/ /\ a.date = b.date
                       /\ \/ a.days_until_exam < b.days_until_exam
                          \/ /\ a.days_until_exam = b.days_until_exam
                             /\ Src(k) < Src(l)
        /\ \A r, q \in 1..Len(conflicts_resolved) :
            r < q => DateOfText(conflicts_resolved[r].date)
                         < DateOfText(conflicts_resolved[q].date)

\* the output is not in order of resulting date, the input was not in order of
\* date, and there are two conflict records
OutputInProcessingOrderWitness ==
    /\ Done
    /\ \E k, l \in Outputs : k < l /\ Out(k).date > Out(l).date
    /\ \E j, l \in Inputs : j < l /\ given[j].date > given[l].date
    /\ Len(conflicts_resolved) >= 2

-----------------------------------------------------------------------------
(* C10 *)

\* C10: every output task is the original task, "[Rescheduled] " and the
\* original task, or the conflict prefix and the original task; none holds
\* both markers; and an item has the rescheduled marker exactly when its
\* output date is not its input date.
MarkerExclusivity ==
    \A k \in Outputs :
        LET j == Src(k)
        IN  /\ Out(k).task \in { given[j].task,
                                 "[Rescheduled] " \o given[j].task,
                                 "[CONFLICT] " \o given[j].task }
            /\ ~(Contains(Out(k).task, "[Rescheduled]")
                    /\ Contains(Out(k).task, "[CONFLICT"))
            /\ IsRescheduled(k) <=> Out(k).date # given[j].date

\* one item was moved to an earlier date and one to a later date
MarkerExclusivityWitness ==
    /\ Done
    /\ \E k \in Outputs : IsRescheduled(k) /\ Out(k).date < given[Src(k)].date
    /\ \E k \in Outputs : IsRescheduled(k) /\ Out(k).date > given[Src(k)].date

-----------------------------------------------------------------------------
(* C11 *)

\* C11: a moved item is never put on a date that is the exam date of any
\* item of the input list, of its own course or of another; such a candidate
\* is passed over however few items the date holds.
NeverOntoAnExamDay ==
    \A k \in Outputs :
        IsRescheduled(k) =>
            \A j \in Inputs : Out(k).date # given[j].exam_date

\* the first candidate (+1) of a moved item was the exam day of another
\* course and held no item at all; the item went elsewhere
NeverOntoAnExamDayWitness ==
    /\ Done
    /\ \E k \in Outputs :
        /\ IsRescheduled(k)
        /\ LET j == Src(k)
               first == given[j].date + 1
           IN  /\ first # given[j].exam_date
               /\ \E l \in Inputs :
                    given[l].exam_date = first /\ given[l].course # given[j].course
               /\ EarlierOn(k, first) = 0
               /\ CountOn(resolved_items, first) = 0
               /\ Out(k).date # first

-----------------------------------------------------------------------------
(* C12 *)

\* the output items marked [Rescheduled] that are dated d
RescheduledOn(d) == { k \in Outputs : IsRescheduled(k) /\ Out(k).date = d }

\* the step adds a moved item to the output
AddsRescheduled ==
    /\ Len(resolved_items') = Len(resolved_items) + 1
    /\ StartsWith(heap'[resolved_items'[Len(resolved_items')]].task,
                  "[Rescheduled] ")

\* C12: a step that adds a moved item to the output puts it on a date that
\* fewer than 2 items of the output had just before the step, whatever their
\* kind (kept, moved or marked as conflict); hence at all times no date holds
\* more than 2 items marked [Rescheduled].
AtMostTwoWhenPlaced ==
    /\ [][AddsRescheduled =>
            CountOn(resolved_items,
                    heap'[resolved_items'[Len(resolved_items')]].date) < 2]_vars
    /\ [](\A k \in Outputs : Cardinality(RescheduledOn(Out(k).date)) <= 2)

\* a date holds two moved items, and a moved item was put on a date that
\* held an item kept as it came
AtMostTwoWhenPlacedWitness ==
    /\ Done
    /\ \E k \in Outputs : Cardinality(RescheduledOn(Out(k).date)) = 2
    /\ \E k \in Outputs :
        /\ IsRescheduled(k)
        /\ \E l \in 1..(k - 1) :
            /\ Out(l).date = Out(k).date
            /\ Out(l) = given[Src(l)]

-----------------------------------------------------------------------------
(* C13 *)

InputDates == { given[j].date : j \in Inputs }

\* the output items whose task carries no marker
Unmarked == { k \in Outputs : ~IsRescheduled(k) /\ ~IsMarkedConflict(k) }

\* C13: for every date of the input, the output holds exactly one unmarked
\* item on that date, and it is the most urgent input item of the date, as it
\* came; so there are as many unmarked output items as distinct input dates,
\* and the only item of a date is kept untouched even when moved items are
\* already on that date.
OneUnmarkedPerDate ==
    Done =>
        /\ \A d \in InputDates :
            LET on == { k \in Unmarked : Out(k).date = d }
            IN  /\ Cardinality(on) = 1
                /\ \A k \in on : Wins(Src(k)) /\ Out(k) = given[Src(k)]
        /\ Cardinality(Unmarked) = Cardinality(InputDates)

\* the only input item of a date came out unmarked after two moved items had
\* been put on that date
OneUnmarkedPerDateWitness ==
    /\ Done
    /\ \E k \in Unmarked :
        /\ Cardinality({ j \in Inputs : given[j].date = Out(k).date }) = 1
        /\ Cardinality({ l \in 1..(k - 1) :
                            IsRescheduled(l) /\ Out(l).date = Out(k).date }) = 2

====
